---- MODULE Spec2Model ----
(***************************************************************************)
(* A model of server.py, the Flask service that wraps one pretrained       *)
(* Generator: module start-up (seeds, tmp directory, model load), the      *)
(* POST /generate handler, the GET /health handler and the helper          *)
(* fix_base64_padding.                                                     *)
(*                                                                         *)
(* Python strings are sequences of one-character strings, byte strings are *)
(* sequences of numbers in 0..255, tensor values are exact fractions       *)
(* [n, d] or NaN.                                                          *)
(***************************************************************************)
EXTENDS Integers, Sequences, FiniteSets, TLC

VARIABLES phase, model, rng, fs, pc, req, loc, resp,
          padIn, padOut, padPc

vars == <<phase, model, rng, fs, pc, req, loc, resp,
          padIn, padOut, padPc>>

padVars == <<padIn, padOut, padPc>>

(***************************************************************************)
(* Bounds of the model.                                                    *)
(***************************************************************************)
\* Number of requests the threaded development server handles at a time.
NThreads == 2
\* Longest string handed to fix_base64_padding.
MaxPadLen == 10

Threads == 1..NThreads

(***************************************************************************)
(* Sequences, bytes, fractions.                                            *)
(***************************************************************************)
Repeat(c, n) == [i \in 1..n |-> c]

\* The sequence f with its elements computed once.
AsSeq(f) == f \o <<>>

RECURSIVE Gcd(_, _)
Gcd(a, b) == IF b = 0 THEN a ELSE Gcd(b, a % b)

Abs(a) == IF a < 0 THEN -a ELSE a

\* A tensor value: the fraction n/d in lowest terms with d > 0, or one of
\* the IEEE specials 0/0 (NaN), 1/0 (inf), -1/0 (-inf).
NaN == [n |-> 0, d |-> 0]
Rat(n, d) ==
    IF d = 0 THEN [n |-> IF n > 0 THEN 1 ELSE IF n < 0 THEN -1 ELSE 0, d |-> 0]
    ELSE LET g == Gcd(Abs(n), Abs(d))
             s == IF d < 0 THEN -1 ELSE 1
         IN  [n |-> s * (n \div g), d |-> s * (d \div g)]

IsNaN(x) == x.n = 0 /\ x.d = 0
IsFinite(x) == x.d # 0
\* Comparisons are false when an operand is NaN.
RatLe(x, y) ==
    /\ ~IsNaN(x) /\ ~IsNaN(y)
    /\ IF x.d = 0 /\ y.d = 0 THEN x.n <= y.n ELSE x.n * y.d <= y.n * x.d

\* IEEE arithmetic on finite operands; NaN propagates, 0/0 is NaN.
FAdd(x, y) == IF ~IsFinite(x) \/ ~IsFinite(y) THEN NaN ELSE Rat((x.n * y.d) + (y.n * x.d), x.d * y.d)
FSub(x, y) == IF ~IsFinite(x) \/ ~IsFinite(y) THEN NaN ELSE Rat((x.n * y.d) - (y.n * x.d), x.d * y.d)
FMul(x, y) == IF ~IsFinite(x) \/ ~IsFinite(y) THEN NaN ELSE Rat(x.n * y.n, x.d * y.d)
FDiv(x, y) ==
    IF ~IsFinite(x) \/ ~IsFinite(y) THEN NaN
    ELSE IF y.n = 0 THEN Rat(x.n, 0)
    ELSE Rat(x.n * y.d, x.d * y.n)

\* A tensor is a sequence of channels, a channel a sequence of values.
Values(x) == {x[c][i] : c \in DOMAIN x, i \in DOMAIN x[1]}
\* torch.Tensor.min / max: NaN if any element is NaN.
TMin(x) ==
    IF \E v \in Values(x) : IsNaN(v) THEN NaN
    ELSE CHOOSE v \in Values(x) : \A w \in Values(x) : RatLe(v, w)
TMax(x) ==
    IF \E v \in Values(x) : IsNaN(v) THEN NaN
    ELSE CHOOSE v \in Values(x) : \A w \in Values(x) : RatLe(w, v)
TMap(F(_), x) == AsSeq([c \in DOMAIN x |-> AsSeq([i \in DOMAIN x[c] |-> F(x[c][i])])])

\* Python values a JSON field can hold.
PyNone == [t |-> "NoneType"]
PyInt == [t |-> "int"]
PyStr(s) == [t |-> "str", v |-> s]

(***************************************************************************)
(* base64 (the standard library's b64decode and b64encode).                *)
(***************************************************************************)
B64Alphabet ==
    << "A","B","C","D","E","F","G","H","I","J","K","L","M","N","O","P",
       "Q","R","S","T","U","V","W","X","Y","Z","a","b","c","d","e","f",
       "g","h","i","j","k","l","m","n","o","p","q","r","s","t","u","v",
       "w","x","y","z","0","1","2","3","4","5","6","7","8","9","+","/" >>

IsB64(c) == \E i \in DOMAIN B64Alphabet : B64Alphabet[i] = c
B64Index(c) == (CHOOSE i \in DOMAIN B64Alphabet : B64Alphabet[i] = c) - 1

Ok(v) == [ok |-> TRUE, val |-> v]
Err(type, msg) == [ok |-> FALSE, type |-> type, msg |-> msg]

\* binascii.a2b_base64 without strict mode: characters outside the alphabet
\* are skipped, a complete pad sequence ends the parse, a data character
\* resets the pad count; what is left of a quad at the end is an error.
RECURSIVE A2B(_, _, _, _, _, _)
A2B(s, i, quad, left, pads, out) ==
    IF i > Len(s) THEN
        IF quad = 0 THEN Ok(out)
        ELSE IF quad = 1
             THEN Err("binascii.Error", <<"Invalid base64-encoded string">>)
             ELSE Err("binascii.Error", <<"Incorrect padding">>)
    ELSE IF s[i] = "=" THEN
        IF quad >= 2 /\ quad + pads + 1 >= 4 THEN Ok(out)
        ELSE A2B(s, i + 1, quad, left, IF quad >= 2 THEN pads + 1 ELSE pads, out)
    ELSE IF ~IsB64(s[i]) THEN A2B(s, i + 1, quad, left, pads, out)
    ELSE LET v == B64Index(s[i]) IN
         CASE quad = 0 -> A2B(s, i + 1, 1, v, 0, out)
           [] quad = 1 -> A2B(s, i + 1, 2, v % 16, 0, Append(out, (left * 4) + (v \div 16)))
           [] quad = 2 -> A2B(s, i + 1, 3, v % 4, 0, Append(out, (left * 16) + (v \div 4)))
           [] quad = 3 -> A2B(s, i + 1, 0, 0, 0, Append(out, (left * 64) + v))

\* base64.b64decode(s): s must be bytes-like or an ASCII string.
b64decode(s) ==
    IF s.t # "str"
    THEN Err("TypeError", <<"argument should be a bytes-like object or ASCII string, not", s.t>>)
    ELSE A2B(s.v, 1, 0, 0, 0, <<>>)

\* base64.b64encode(b): three bytes to four characters, '=' fills the last quad.
RECURSIVE b64encode(_)
b64encode(b) ==
    IF Len(b) = 0 THEN <<>>
    ELSE IF Len(b) = 1 THEN
        << B64Alphabet[(b[1] \div 4) + 1], B64Alphabet[((b[1] % 4) * 16) + 1], "=", "=" >>
    ELSE IF Len(b) = 2 THEN
        << B64Alphabet[(b[1] \div 4) + 1],
           B64Alphabet[((b[1] % 4) * 16) + (b[2] \div 16) + 1],
           B64Alphabet[((b[2] % 16) * 4) + 1], "=" >>
    ELSE << B64Alphabet[(b[1] \div 4) + 1],
            B64Alphabet[((b[1] % 4) * 16) + (b[2] \div 16) + 1],
            B64Alphabet[((b[2] % 16) * 4) + (b[3] \div 64) + 1],
            B64Alphabet[(b[3] % 64) + 1] >> \o b64encode(SubSeq(b, 4, Len(b)))

(***************************************************************************)
(* fix_base64_padding                                                      *)
(***************************************************************************)
\* A plausible slip: as many '=' as the remainder, not as its complement.
fix_base64_padding_remainder(s) ==
    LET padding_needed == Len(s) % 4 IN
    IF padding_needed # 0 THEN s \o Repeat("=", padding_needed) ELSE s

fix_base64_padding(s) ==
    LET padding_needed == Len(s) % 4 IN
    IF padding_needed # 0 THEN s \o Repeat("=", 4 - padding_needed) ELSE s

(***************************************************************************)
(* Images.  An image file is a header (signature, colour type, width and   *)
(* height on two bytes each, number of pixel samples) followed by the      *)
(* samples; an image in memory is [mode, w, h, px], px the pixel samples.  *)
(***************************************************************************)
PngSignature == 137
HeaderLen == 7
\* PIL.Image.MAX_IMAGE_PIXELS: Image.open refuses more than twice as many.
MaxImagePixels == 89478485

ColourTypes == {0, 2, 4, 6}
ModeOf(ct) == CASE ct = 0 -> "L" [] ct = 2 -> "RGB" [] ct = 4 -> "LA" [] ct = 6 -> "RGBA"
ColourTypeOf(mode) == CHOOSE ct \in ColourTypes : ModeOf(ct) = mode
Bands(mode) == CASE mode = "L" -> 1 [] mode = "LA" -> 2 [] mode = "RGB" -> 3 [] mode = "RGBA" -> 4

RECURSIVE Flatten(_)
Flatten(px) == IF Len(px) = 0 THEN <<>> ELSE px[1] \o Flatten(Tail(px))

\* Image.save(..., format="PNG"): the bytes of the file.
PngEncode(img) ==
    << PngSignature, ColourTypeOf(img.mode), img.w \div 256, img.w % 256,
       img.h \div 256, img.h % 256, Len(img.px) >> \o Flatten(img.px)

\* Image.open(io.BytesIO(b)): reads the header only; the pixel data is read
\* when the image is first used.
Image_open(b) ==
    IF Len(b) < HeaderLen \/ b[1] # PngSignature \/ b[2] \notin ColourTypes
       \/ (b[3] * 256) + b[4] = 0 \/ (b[5] * 256) + b[6] = 0
    THEN Err("UnidentifiedImageError", <<"cannot identify image file">>)
    ELSE LET w == (b[3] * 256) + b[4]
             h == (b[5] * 256) + b[6]
         IN  IF h > (2 * MaxImagePixels) \div w
             THEN Err("DecompressionBombError", <<"Image size exceeds limit of", 2 * MaxImagePixels, "pixels">>)
             ELSE Ok([mode |-> ModeOf(b[2]), w |-> w, h |-> h, n |-> b[7],
                      data |-> SubSeq(b, HeaderLen + 1, Len(b))])

\* One pixel in mode RGB.
ToRGB(mode, p) ==
    CASE mode = "L" -> <<p[1], p[1], p[1]>>
      [] mode = "LA" -> <<p[1], p[1], p[1]>>
      [] mode = "RGB" -> p
      [] mode = "RGBA" -> <<p[1], p[2], p[3]>>

\* A conversion that knows no transparency.
Convert_RGB_NoAlpha(f) ==
    IF Len(f.data) < f.n * Bands(f.mode)
    THEN Err("OSError", <<"image file is truncated">>)
    ELSE IF f.mode \in {"LA", "RGBA"}
    THEN Err("ValueError", <<"conversion from", f.mode, "to RGB not supported">>)
    ELSE Ok([mode |-> "RGB", w |-> f.w, h |-> f.h,
             px |-> AsSeq([i \in 1..f.n |-> ToRGB(f.mode, SubSeq(f.data, (Bands(f.mode) * (i - 1)) + 1, Bands(f.mode) * i))])])

\* Image.convert('RGB') of an opened file: loads the pixel data, which
\* raises on a truncated file, then converts pixel by pixel.
Convert_RGB(f) ==
    LET k == Bands(f.mode) IN
    IF Len(f.data) < f.n * k
    THEN Err("OSError", <<"image file is truncated">>)
    ELSE Ok([mode |-> "RGB", w |-> f.w, h |-> f.h,
             px |-> AsSeq([i \in 1..f.n |-> ToRGB(f.mode, SubSeq(f.data, (k * (i - 1)) + 1, k * i))])])

(***************************************************************************)
(* my_transform                                                            *)
(***************************************************************************)
Side == 128

\* transforms.Resize((128, 128)): bilinear interpolation adds values between
\* neighbouring samples and keeps the corner pixels; the samples stay.
Resize(img) == [img EXCEPT !.w = Side, !.h = Side]

\* ITU-R 601-2 luma, as Pillow computes it.
Luma(p) == ((p[1] * 19595) + (p[2] * 38470) + (p[3] * 7471) + 32768) \div 65536

\* transforms.Grayscale(num_output_channels=3)
Grayscale3(img) ==
    [img EXCEPT !.px = AsSeq([i \in DOMAIN img.px |-> <<Luma(img.px[i]), Luma(img.px[i]), Luma(img.px[i])>>])]

\* transforms.ToTensor(): channels first, bytes scaled to [0, 1].
ToTensor(img) == AsSeq([c \in 1..3 |-> AsSeq([i \in DOMAIN img.px |-> Rat(img.px[i][c], 255)])])

\* lambda x: (x - x.min()) / (x.max() - x.min())
ScaleBetween(x, lo, hi) ==
    LET Scale(v) == FDiv(FSub(v, lo), FSub(hi, lo)) IN TMap(Scale, x)
MinMaxScale(x) == ScaleBetween(x, TMin(x), TMax(x))

\* lambda x: 2.0 * x - 1.0
ToSigned(x) ==
    LET F(v) == FSub(FMul(Rat(2, 1), v), Rat(1, 1)) IN TMap(F, x)

my_transform(img) == ToSigned(MinMaxScale(ToTensor(Grayscale3(Resize(img)))))

\* (x + 1) / 2
Denormalize(x) ==
    LET F(v) == FDiv(FAdd(v, Rat(1, 1)), Rat(2, 1)) IN TMap(F, x)

\* torch.clamp(x, 0, 1): NaN stays NaN.
Clamp01(x) ==
    LET F(v) == IF IsNaN(v) THEN NaN
                ELSE IF RatLe(v, Rat(0, 1)) THEN Rat(0, 1)
                ELSE IF RatLe(Rat(1, 1), v) THEN Rat(1, 1) ELSE v
    IN  TMap(F, x)

\* transforms.ToPILImage() of a float tensor: pic.mul(255).byte().  The
\* conversion of a NaN to a byte is undefined; nb is what the platform gives.
ToPILImage(x, nb) ==
    LET Byte(v) == IF ~IsFinite(v) THEN nb ELSE ((v.n * 255) \div v.d) % 256
    IN  [mode |-> "RGB", w |-> Side, h |-> Side,
         px |-> AsSeq([i \in DOMAIN x[1] |-> <<Byte(x[1][i]), Byte(x[2][i]), Byte(x[3][i])>>])]

(***************************************************************************)
(* The process: file system, random generator, model.                      *)
(***************************************************************************)
CkptPath == "/Users/tamarreuven/ShoeSketchBackend/final_generator.pth"
tmp_dir == "/Users/tamarreuven/ShoeSketchBackend/tmp"
ProcessedInput == "/Users/tamarreuven/ShoeSketchBackend/tmp/processed_input.png"
DebugInput == "/Users/tamarreuven/ShoeSketchBackend/tmp/debug_input.png"
FinalOutput == "/Users/tamarreuven/ShoeSketchBackend/tmp/final_output.png"

DebugFiles == {ProcessedInput, DebugInput, FinalOutput}
Paths == {CkptPath, tmp_dir} \cup DebugFiles

Absent == [exists |-> FALSE, data |-> <<>>]
File(data) == [exists |-> TRUE, data |-> data]

\* What the checkpoint holds under "generator_state_dict".
StateDict == <<1, -1, 2>>

Seed == 42
\* torch.manual_seed(42): the generator restarts its sequence.
manual_seed(n) == [seed |-> n, pos |-> 0]
DefaultRng == [seed |-> 0, pos |-> 0]

NoModel == [loaded |-> FALSE]

\* A load that forgets eval(): the model stays in training mode.
LoadModelNoEval(ckpt) ==
    [loaded |-> TRUE, n_channels |-> 3, n_classes |-> 3, bilinear |-> TRUE,
     params |-> ckpt, training |-> TRUE]

\* Generator(n_channels=3, n_classes=3, bilinear=True); load_state_dict;
\* eval().
LoadModel(ckpt) ==
    [loaded |-> TRUE, n_channels |-> 3, n_classes |-> 3, bilinear |-> TRUE,
     params |-> ckpt, training |-> FALSE]

\* The k-th number the generator seeded with r.seed hands out.
Draw(r) == Rat(((r.seed + r.pos) % 3) - 1, 2)

\* model(input_tensor) under torch.no_grad(): the output is a function of
\* the parameters, the input and the random generator's state, and advances
\* the generator; the parameters change only in training mode.
Forward(m, x, r) ==
    [out |-> AsSeq([c \in 1..m.n_classes |->
                AsSeq([i \in DOMAIN x[1] |-> FAdd(FMul(Rat(m.params[c], 1), x[((c - 1) % Len(x)) + 1][i]), Draw(r))])]),
     rng |-> [r EXCEPT !.pos = @ + 1],
     model |-> IF m.training THEN [m EXCEPT !.params = [c \in DOMAIN @ |-> @[c] + 1]] ELSE m]

(***************************************************************************)
(* Requests.                                                               *)
(***************************************************************************)
\* A request body: not JSON, or the JSON values null, a list, an object
\* without "sketch", an object whose "sketch" is a number or a string.
NotJson == [json |-> "invalid", sketch |-> PyNone]
JsonNull == [json |-> "null", sketch |-> PyNone]
JsonList == [json |-> "list", sketch |-> PyNone]
JsonObject(v) == [json |-> "object", sketch |-> v]

Idle == [route |-> "none", body |-> NotJson]
NoResp == [status |-> 0, body |-> [none |-> TRUE]]
NoLoc == [img |-> <<>>, tensor |-> <<>>, exc |-> <<>>]

\* jsonify(d), 200 unless a status is given.
Response(status, body) == [status |-> status, body |-> body]

\* A handler that lets werkzeug's HTTP exceptions through: Flask answers
\* them with their own status.
GenerateExceptHttpEscapes(e) ==
    IF e.type = "BadRequest" THEN Response(400, [error |-> e.msg]) ELSE Response(500, [error |-> e.msg])

\* except Exception as e: return jsonify({"error": str(e)}), 500
GenerateExcept(e) == Response(500, [error |-> e.msg])

\* Lines 61-72: request.json, data.get("sketch"), b64decode, Image.open,
\* convert('RGB'); the processed image, or the exception raised on the way.
DecodeSketch(body) ==
    IF body.json = "invalid"
    THEN Err("BadRequest", <<"400 Bad Request: Failed to decode JSON object">>)
    ELSE IF body.json # "object"
    THEN Err("AttributeError", <<body.json, "object has no attribute 'get'">>)
    ELSE LET image_data == b64decode(body.sketch) IN
         IF ~image_data.ok THEN image_data
         ELSE LET original_image == Image_open(image_data.val) IN
              IF ~original_image.ok THEN original_image
              ELSE Convert_RGB(original_image.val)

(***************************************************************************)
(* The request bodies the clients send.                                    *)
(***************************************************************************)
\* A 1x1 grey image; a 3x1 image with transparency; a 20000x20000 white
\* image; a file cut short; bytes of no image.
UniformFile == PngEncode([mode |-> "L", w |-> 1, h |-> 1, px |-> << <<200>> >>])
GradientFile ==
    PngEncode([mode |-> "RGBA", w |-> 3, h |-> 1,
               px |-> << <<0, 0, 0, 255>>, <<90, 100, 110, 128>>, <<255, 255, 255, 0>> >>])
HugeFile == PngEncode([mode |-> "RGB", w |-> 20000, h |-> 20000, px |-> << <<255, 255, 255>> >>])
TruncatedFile == << PngSignature, 2, 0, 2, 0, 1, 2, 10, 20, 30 >>
NoImageBytes == << 1, 2, 3 >>

RECURSIVE StripPadding(_)
StripPadding(s) ==
    IF Len(s) > 0 /\ s[Len(s)] = "=" THEN StripPadding(SubSeq(s, 1, Len(s) - 1)) ELSE s

ImageFiles == {UniformFile, GradientFile, HugeFile}

SketchStrings ==
    {b64encode(f) : f \in ImageFiles \cup {TruncatedFile, NoImageBytes}}
    \cup {StripPadding(b64encode(f)) : f \in {UniformFile, GradientFile}}
    \cup {b64encode(HugeFile) \o <<"\n">>, <<>>, <<"A">>}

Bodies ==
    {NotJson, JsonNull, JsonList, JsonObject(PyNone), JsonObject(PyInt)}
    \cup {JsonObject(PyStr(s)) : s \in SketchStrings}

\* Thread 1 carries the request under study, any of Bodies; the other
\* threads carry the traffic that runs beside it.
TrafficBodies == {JsonObject(PyStr(b64encode(GradientFile)))}
BodiesOf(t) == IF t = 1 THEN Bodies ELSE TrafficBodies

\* Lines 61-72 for each body.
Decoded == [body \in Bodies |-> DecodeSketch(body)]

\* What the conversion of a NaN to a byte may give.
NanBytes == {0, 255}

(***************************************************************************)
(* Start-up: lines 16-34 run once when the module is imported; app.run     *)
(* (line 122) then serves requests.                                        *)
(***************************************************************************)
InitServer ==
    /\ phase = "init"
    /\ model = NoModel
    /\ rng = DefaultRng
    /\ \E ckpt \in {Absent, File(StateDict)}, dir \in {Absent, File(<<>>)} :
          fs = [p \in Paths |-> IF p = CkptPath THEN ckpt ELSE IF p = tmp_dir THEN dir ELSE Absent]
    /\ pc = [t \in Threads |-> "idle"]
    /\ req = [t \in Threads |-> Idle]
    /\ loc = [t \in Threads |-> NoLoc]
    /\ resp = [t \in Threads |-> NoResp]

InitPadIdle ==
    /\ padIn = <<>>
    /\ padOut = <<>>
    /\ padPc = "in"

Init == InitServer /\ InitPadIdle

\* The module body.  torch.load raises when the checkpoint is missing, and
\* the process ends before app.run.
Startup ==
    /\ phase = "init"
    /\ rng' = manual_seed(Seed)
    /\ fs' = [fs EXCEPT ![tmp_dir] = File(<<>>)]
    /\ IF fs[CkptPath].exists
       THEN /\ model' = LoadModel(fs[CkptPath].data)
            /\ phase' = "serving"
       ELSE /\ model' = NoModel
            /\ phase' = "exit"
    /\ UNCHANGED <<pc, req, loc, resp, padVars>>

(***************************************************************************)
(* POST /generate.  The development server gives each request a thread     *)
(* (app.run's default), so handlers interleave between their steps.        *)
(***************************************************************************)
\* The handler ends in its except clause.
Raise(t, e) ==
    /\ pc' = [pc EXCEPT ![t] = "done"]
    /\ loc' = [loc EXCEPT ![t] = [NoLoc EXCEPT !.exc = <<e>>]]
    /\ resp' = [resp EXCEPT ![t] = GenerateExcept(e)]

\* Image.save(path): writes the file, or raises when the disk refuses.
DiskError == Err("OSError", <<"No space left on device">>)

\* Lines 57-74: reseed, read the request, decode the sketch.
GenerateBegin(t, body) ==
    /\ phase = "serving"
    /\ pc[t] = "idle"
    /\ req' = [req EXCEPT ![t] = [route |-> "generate", body |-> body]]
    /\ rng' = manual_seed(Seed)
    /\ LET processed_image == Decoded[body] IN
       IF processed_image.ok
       THEN /\ pc' = [pc EXCEPT ![t] = "L77"]
            /\ loc' = [loc EXCEPT ![t] = [NoLoc EXCEPT !.img = processed_image.val]]
            /\ UNCHANGED resp
       ELSE Raise(t, processed_image)
    /\ UNCHANGED <<phase, model, fs, padVars>>

\* Lines 77-86: save the processed input, transform it, build the debug image.
SaveProcessedInput(t, diskOk) ==
    /\ pc[t] = "L77"
    /\ IF diskOk
       THEN /\ fs' = [fs EXCEPT ![ProcessedInput] = File(PngEncode(loc[t].img))]
            /\ LET input_tensor == my_transform(loc[t].img) IN
               \E nb \in NanBytes :
                  loc' = [loc EXCEPT ![t] = [@ EXCEPT !.tensor = input_tensor,
                             !.img = ToPILImage(Denormalize(input_tensor), nb)]]
            /\ pc' = [pc EXCEPT ![t] = "L87"]
            /\ UNCHANGED resp
       ELSE /\ Raise(t, DiskError)
            /\ UNCHANGED fs
    /\ UNCHANGED <<phase, model, rng, req, padVars>>

\* A save under the wrong path: the debug image lands on the checkpoint.
SaveDebugInputWrongPath(t, diskOk) ==
    /\ pc[t] = "L87"
    /\ IF diskOk
       THEN /\ fs' = [fs EXCEPT ![CkptPath] = File(PngEncode(loc[t].img))]
            /\ pc' = [pc EXCEPT ![t] = "L91"]
            /\ UNCHANGED <<loc, resp>>
       ELSE /\ Raise(t, DiskError)
            /\ UNCHANGED fs
    /\ UNCHANGED <<phase, model, rng, req, padVars>>

\* Line 87: save the debug image.
SaveDebugInput(t, diskOk) ==
    /\ pc[t] = "L87"
    /\ IF diskOk
       THEN /\ fs' = [fs EXCEPT ![DebugInput] = File(PngEncode(loc[t].img))]
            /\ pc' = [pc EXCEPT ![t] = "L91"]
            /\ UNCHANGED <<loc, resp>>
       ELSE /\ Raise(t, DiskError)
            /\ UNCHANGED fs
    /\ UNCHANGED <<phase, model, rng, req, padVars>>

\* Lines 90-100: the forward pass, denormalise, clamp, to an image.
RunModel(t) ==
    /\ pc[t] = "L91"
    /\ LET f == Forward(model, loc[t].tensor, rng) IN
       /\ model' = f.model
       /\ rng' = f.rng
       /\ \E nb \in NanBytes :
             loc' = [loc EXCEPT ![t] = [@ EXCEPT !.img = ToPILImage(Clamp01(Denormalize(f.out)), nb)]]
    /\ pc' = [pc EXCEPT ![t] = "L101"]
    /\ UNCHANGED <<phase, fs, req, resp, padVars>>

\* Lines 101-109: save the output, encode it, answer.
SaveFinalOutput(t, diskOk) ==
    /\ pc[t] = "L101"
    /\ IF diskOk
       THEN /\ fs' = [fs EXCEPT ![FinalOutput] = File(PngEncode(loc[t].img))]
            /\ resp' = [resp EXCEPT ![t] =
                          Response(200, [generated_image |-> b64encode(PngEncode(loc[t].img))])]
            /\ pc' = [pc EXCEPT ![t] = "done"]
            /\ loc' = [loc EXCEPT ![t] = NoLoc]
       ELSE /\ Raise(t, DiskError)
            /\ UNCHANGED fs
    /\ UNCHANGED <<phase, model, rng, req, padVars>>

Executing == {"L77", "L87", "L91", "L101"}

\* A health check that reports the server busy while a sketch is processed.
health_check_busy ==
    IF \E t \in Threads : pc[t] \in Executing
    THEN Response(503, [status |-> "busy"])
    ELSE Response(200, [status |-> "ok", model |-> "Generator",
                        n_channels |-> model.n_channels, n_classes |-> model.n_classes])

\* GET /health
health_check ==
    Response(200, [status |-> "ok", model |-> "Generator",
                   n_channels |-> model.n_channels, n_classes |-> model.n_classes])

Health(t) ==
    /\ phase = "serving"
    /\ pc[t] = "idle"
    /\ req' = [req EXCEPT ![t] = [route |-> "health", body |-> NotJson]]
    /\ resp' = [resp EXCEPT ![t] = health_check]
    /\ pc' = [pc EXCEPT ![t] = "done"]
    /\ UNCHANGED <<phase, model, rng, fs, loc, padVars>>

\* The response is sent and the thread ends.
Respond(t) ==
    /\ pc[t] = "done"
    /\ pc' = [pc EXCEPT ![t] = "idle"]
    /\ req' = [req EXCEPT ![t] = Idle]
    /\ loc' = [loc EXCEPT ![t] = NoLoc]
    /\ resp' = [resp EXCEPT ![t] = NoResp]
    /\ UNCHANGED <<phase, model, rng, fs, padVars>>

\* A step of thread t; disk says which outcomes a save may have.
Handle(t, disk) ==
    \/ \E body \in BodiesOf(t) : GenerateBegin(t, body)
    \/ \E ok \in disk : SaveProcessedInput(t, ok)
    \/ \E ok \in disk : SaveDebugInput(t, ok)
    \/ RunModel(t)
    \/ \E ok \in disk : SaveFinalOutput(t, ok)
    \/ Health(t)
    \/ Respond(t)

Next == Startup \/ \E t \in Threads : Handle(t, BOOLEAN)

Spec == Init /\ [][Next]_vars

\* The same server on a disk that never refuses a write.
NextEnvOk == Startup \/ \E t \in Threads : Handle(t, {TRUE})

SpecEnvOk == Init /\ [][NextEnvOk]_vars

(***************************************************************************)
(* fix_base64_padding on its own: the handler never calls it, so it is     *)
(* applied here to every string of up to MaxPadLen characters, once and    *)
(* then again to its own result.                                           *)
(***************************************************************************)
PadAlphabet == {"A", "="}

RECURSIVE StringsUpTo(_)
StringsUpTo(n) ==
    IF n = 0 THEN {<<>>}
    ELSE LET shorter == StringsUpTo(n - 1) IN
         shorter \cup {Append(s, c) : s \in {x \in shorter : Len(x) = n - 1}, c \in PadAlphabet}

InitPad ==
    /\ InitServer
    /\ padIn \in StringsUpTo(MaxPadLen)
    /\ padOut = <<>>
    /\ padPc = "in"

PadOnce ==
    /\ padPc = "in"
    /\ padOut' = fix_base64_padding(padIn)
    /\ padPc' = "once"
    /\ UNCHANGED <<padIn, phase, model, rng, fs, pc, req, loc, resp>>

PadTwice ==
    /\ padPc = "once"
    /\ padOut' = fix_base64_padding(padOut)
    /\ padPc' = "twice"
    /\ UNCHANGED <<padIn, phase, model, rng, fs, pc, req, loc, resp>>

NextPad == PadOnce \/ PadTwice

SpecPad == InitPad /\ [][NextPad]_vars

(***************************************************************************)
(* Properties.                                                             *)
(***************************************************************************)
GenerateDone(t) == pc[t] = "done" /\ req[t].route = "generate"
Raised(t) == Len(loc[t].exc) > 0
Quiescent == phase = "serving" /\ \A t \in Threads : pc[t] = "idle"
HasSketchString(t) == req[t].body.json = "object" /\ req[t].body.sketch.t = "str"

\* C1: every /generate request in which a step raises is answered with
\* HTTP 500 and the body {"error": <message of the exception>}: a body that
\* cannot be decoded to an image is answered so, the status is never 4xx,
\* and an error answer never carries "generated_image".
ErrorsBecome500 ==
    \A t \in Threads : GenerateDone(t) =>
        LET r == resp[t]
            d == Decoded[req[t].body]
        IN  /\ r.status \in {200, 500}
            /\ (~d.ok => r = Response(500, [error |-> d.msg]))
            /\ (Raised(t) => r.status = 500 /\ DOMAIN r.body = {"error"}
                             /\ r.body.error = loc[t].exc[1].msg)
            /\ (r.status = 500 => Raised(t))
            /\ (r.status = 200 => DOMAIN r.body = {"generated_image"})

\* A body that is not JSON and a failed save, both answered with 500.
ErrorsBecome500Witness ==
    \E t, u \in Threads :
        /\ GenerateDone(t) /\ req[t].body = NotJson /\ resp[t].status = 500
        /\ GenerateDone(u) /\ Raised(u) /\ loc[u].exc[1] = DiskError /\ resp[u].status = 500

\* C2: a sketch string whose length is no multiple of 4 and which, once
\* padded by fix_base64_padding, is the encoding of an image is answered
\* with "generated_image".
PaddingAutoCorrected ==
    \A t \in Threads :
        ( /\ GenerateDone(t)
          /\ HasSketchString(t)
          /\ Len(req[t].body.sketch.v) % 4 # 0
          /\ DecodeSketch(JsonObject(PyStr(fix_base64_padding(req[t].body.sketch.v)))).ok )
        => resp[t].status = 200 /\ "generated_image" \in DOMAIN resp[t].body

\* C3: fix_base64_padding(s) is s followed by (4 - len(s) mod 4) mod 4 '=':
\* its length is a multiple of 4, a string of a multiple of 4 characters comes
\* back unchanged, one of 10 characters gets two '=', and the second
\* application changes nothing.
PaddingCorrect ==
    padPc \in {"once", "twice"} =>
        /\ padOut = padIn \o Repeat("=", (4 - (Len(padIn) % 4)) % 4)
        /\ Len(padOut) % 4 = 0
        /\ SubSeq(padOut, 1, Len(padIn)) = padIn
        /\ (Len(padIn) % 4 = 0 => padOut = padIn)
        /\ (Len(padIn) = 10 => padOut = padIn \o <<"=", "=">>)

\* A string of 10 characters, padded twice.
PaddingCorrectWitness == padPc = "twice" /\ Len(padIn) = 10 /\ Len(padOut) = 12

\* The bytes are a complete image file, whatever its size.
IsImageFile(b) ==
    /\ Len(b) >= HeaderLen
    /\ b[1] = PngSignature
    /\ b[2] \in ColourTypes
    /\ (b[3] * 256) + b[4] > 0
    /\ (b[5] * 256) + b[6] > 0
    /\ Len(b) - HeaderLen >= b[7] * Bands(ModeOf(b[2]))

WithinPixelLimit(b) == (b[5] * 256) + b[6] <= (2 * MaxImagePixels) \div ((b[3] * 256) + b[4])

\* For each body: "image" when its sketch is a string that decodes to a
\* complete image file within the pixel limit, "huge" when to one beyond
\* it, "none" otherwise.
SketchKind ==
    [body \in Bodies |->
        IF body.json # "object" THEN "none"
        ELSE IF body.sketch.t # "str" THEN "none"
        ELSE LET d == b64decode(body.sketch) IN
             IF ~d.ok THEN "none"
             ELSE IF ~IsImageFile(d.val) THEN "none"
             ELSE IF WithinPixelLimit(d.val) THEN "image" ELSE "huge"]

SketchIsImage(t) == SketchKind[req[t].body] \in {"image", "huge"}

\* The answer is 200 with the one field "generated_image", the base64 of a
\* 128x128 RGB image file.
SuccessAnswer(r) ==
    /\ r.status = 200
    /\ DOMAIN r.body = {"generated_image"}
    /\ LET d == b64decode(PyStr(r.body.generated_image)) IN
       /\ d.ok
       /\ IsImageFile(d.val)
       /\ Image_open(d.val).ok
       /\ Image_open(d.val).val.mode = "RGB"
       /\ Image_open(d.val).val.w = Side /\ Image_open(d.val).val.h = Side

\* C4 as stated: every request whose sketch decodes to a valid image, of
\* any size and mode, is answered with the success answer.
ValidImageAlwaysSucceeds ==
    \A t \in Threads : GenerateDone(t) /\ SketchIsImage(t) => SuccessAnswer(resp[t])

\* C4 amended: a request whose sketch decodes to a valid image of at most
\* 2 * MAX_IMAGE_PIXELS pixels is answered with the success answer unless a
\* save of a debug file raised.
ValidImageSucceedsWithinLimit ==
    \A t \in Threads :
        ( /\ GenerateDone(t)
          /\ SketchKind[req[t].body] = "image" )
        => \/ SuccessAnswer(resp[t])
           \/ Raised(t) /\ loc[t].exc[1] = DiskError

\* The RGBA image and the grey 1x1 image, both answered with an image.
ValidImageWitness ==
    \E t, u \in Threads :
        /\ GenerateDone(t) /\ SuccessAnswer(resp[t])
        /\ req[t].body = JsonObject(PyStr(b64encode(UniformFile)))
        /\ GenerateDone(u) /\ SuccessAnswer(resp[u])
        /\ req[u].body = JsonObject(PyStr(b64encode(GradientFile)))

\* C5: at most one /generate handler is between its first and its last
\* step, and none before the model is loaded.
OneHandlerAtATime ==
    /\ Cardinality({t \in Threads : pc[t] \in Executing}) <= 1
    /\ ((\E t \in Threads : pc[t] # "idle") => phase = "serving" /\ model.loaded)

\* C6 as stated: when every request has completed, the file system and the
\* process are as they were before the requests.
RequestsLeaveNothing ==
    Quiescent =>
        /\ \A p \in DebugFiles : ~fs[p].exists
        /\ rng = manual_seed(Seed)
        /\ model = LoadModel(StateDict)

\* C6 amended: a request changes no file but the three debug files of
\* tmp_dir, which stay once written; a request that fails before its first
\* save changes no file at all.
OnlyDebugFilesChange ==
    [][ /\ \A p \in Paths \ DebugFiles : phase = "serving" => fs'[p] = fs[p]
        /\ \A p \in DebugFiles : fs[p].exists => fs'[p].exists
        /\ \A t \in Threads : pc[t] = "idle" /\ pc'[t] = "done" => fs' = fs
        /\ \A t \in Threads : pc[t] = "done" /\ pc'[t] = "idle" => fs' = fs ]_vars

\* All requests completed, the three debug files left behind.
DebugFilesLeftWitness == Quiescent /\ \A p \in DebugFiles : fs[p].exists

ModelNeverMutated ==
    [][ phase = "serving" => model.loaded /\ model' = model /\ phase' = "serving" ]_vars

\* A request answered with an image and one answered with an error, the
\* model as loaded.
ModelNeverMutatedWitness ==
    /\ model = [loaded |-> TRUE, n_channels |-> 3, n_classes |-> 3, bilinear |-> TRUE,
                params |-> StateDict, training |-> FALSE]
    /\ \E t, u \in Threads :
        /\ GenerateDone(t) /\ resp[t].status = 200
        /\ GenerateDone(u) /\ resp[u].status = 500

\* C9: every answer to GET /health is 200 with status "ok", model
\* "Generator", n_channels 3 and n_classes 3.
HealthStatic ==
    \A t \in Threads : pc[t] = "done" /\ req[t].route = "health" =>
        resp[t] = Response(200, [status |-> "ok", model |-> "Generator",
                                 n_channels |-> 3, n_classes |-> 3])

\* A health answer beside a failed /generate request, debug files written.
HealthStaticWitness ==
    \E t, u \in Threads :
        /\ pc[t] = "done" /\ req[t].route = "health" /\ resp[t].status = 200
        /\ GenerateDone(u) /\ resp[u].status = 500
        /\ fs[ProcessedInput].exists

\* C10: the input tensor of every request lies in [-1, 1] with minimum -1
\* and maximum 1.
InputTensorNormalised ==
    \A t \in Threads : pc[t] \in {"L87", "L91", "L101"} =>
        LET x == loc[t].tensor IN
        /\ \A v \in Values(x) : RatLe(Rat(-1, 1), v) /\ RatLe(v, Rat(1, 1))
        /\ TMin(x) = Rat(-1, 1)
        /\ TMax(x) = Rat(1, 1)

====
